---- MODULE Spec2Model ----
(***************************************************************************)
(* Model of WerkleitungsImporter (src/werkleitungs_importer.py): the       *)
(* per-row validation pipeline (validate_coordinates, create_line_geometry,*)
(* process_records), the transactional batch write (write_to_database),    *)
(* the error report (save_error_report) and the driver run_import.         *)
(*                                                                         *)
(* Numbers.  Coordinates are floats in the source.  The model counts them  *)
(* in quarters of a unit (0.25), which doubles represent exactly at this   *)
(* magnitude, so the 0.5 threshold of create_line_geometry is 2 quarters   *)
(* and every comparison below is the comparison the floats make.           *)
(* Diameters are counted in tenths of a millimetre so that int() has a     *)
(* fractional part to truncate.                                            *)
(*                                                                         *)
(* Cells.  A spreadsheet cell reaches process_records as a number, as NaN  *)
(* (empty cell) or as a str (text cell); a cell is [t, v] with t one of    *)
(* "num", "nan", "str".  Material and Bemerkung never influence control    *)
(* flow (line 131 guards the NaN remark) and are left out of the records.  *)
(***************************************************************************)
EXTENDS Integers, Sequences, FiniteSets, TLC

\* ---------------------------------------------------------------- bounds
MaxRows == 2
MaxRuns == 2

\* ------------------------------------------------------ program constants
\* LV95 envelope of validate_coordinates, in quarter units
X_MIN == 2480000 * 4
X_MAX == 2840000 * 4
Y_MIN == 1070000 * 4
Y_MAX == 1300000 * 4
\* 0.5 of create_line_geometry, squared, in quarter units: (0.5 * 4)^2
MIN_LENGTH_SQ == 2 * 2
\* idx + 2 of process_records
ROW_OFFSET == 2

\* ------------------------------------------------------------------ cells
Num(n) == [t |-> "num", v |-> n]
NaN == [t |-> "nan", v |-> 0]
Str == [t |-> "str", v |-> 0]

VARIABLES
    pc,             \* position of run_import
    runs,           \* number of run_import calls started on this importer
    df,             \* the DataFrame returned by read_excel (sequence of rows)
    valid_records,  \* rows of the GeoDataFrame returned by process_records
    error_records,  \* self.error_records
    errBase,        \* history: len(self.error_records) when process_records began
    conn,           \* self.conn: "None" or "open"
    cur,            \* write_to_database: index of the next row to execute
    pending,        \* the open transaction's view of table werkleitungen
    store,          \* committed content of table werkleitungen
    storeBefore,    \* history: store when write_to_database was entered
    success,        \* return value of write_to_database ("none" before it returns)
    report,         \* rows written to the *_fehler.csv of this run
    reportStatus,   \* "none", "skipped", "written", "failed"
    cause,          \* history: the event that decided the run's outcome
    result,         \* outcome of run_import: "none", "True", "False", "raised"
    xy,             \* argument pair of a direct validate_coordinates call
    verdict         \* its result

vars == <<pc, runs, df, valid_records, error_records, errBase, conn, cur,
          pending, store, storeBefore, success, report, reportStatus, cause,
          result, xy, verdict>>

\* ------------------------------------------------- validate_coordinates
Returned(ok, msg) == [raised |-> FALSE, ok |-> ok, msg |-> msg]
Raised(msg) == [raised |-> TRUE, ok |-> FALSE, msg |-> msg]
NoVerdict == [raised |-> FALSE, ok |-> FALSE, msg |-> <<>>]

\* Python's  lo <= c <= hi  on a cell: a str operand raises TypeError at the
\* first comparison, NaN compares False.
InRange(lo, c, hi) == c.t = "num" /\ lo <= c.v /\ c.v <= hi

validate_coordinates_exclusive(x, y) ==
    IF x.t = "str" THEN Raised(<<"TypeError">>)
    ELSE IF ~(x.t = "num" /\ X_MIN < x.v /\ x.v < X_MAX)
         THEN Returned(FALSE, <<"X-Koordinate ausserhalb Schweizer Bereich">>)
    ELSE IF y.t = "str" THEN Raised(<<"TypeError">>)
    ELSE IF ~(y.t = "num" /\ Y_MIN < y.v /\ y.v < Y_MAX)
         THEN Returned(FALSE, <<"Y-Koordinate ausserhalb Schweizer Bereich">>)
    ELSE Returned(TRUE, <<"OK">>)

validate_coordinates(x, y) ==
    IF x.t = "str" THEN Raised(<<"TypeError">>)
    ELSE IF ~InRange(X_MIN, x, X_MAX)
         THEN Returned(FALSE, <<"X-Koordinate ausserhalb Schweizer Bereich">>)
    ELSE IF y.t = "str" THEN Raised(<<"TypeError">>)
    ELSE IF ~InRange(Y_MIN, y, Y_MAX)
         THEN Returned(FALSE, <<"Y-Koordinate ausserhalb Schweizer Bereich">>)
    ELSE Returned(TRUE, <<"OK">>)

\* ------------------------------------------------- create_line_geometry
Abs(n) == IF n < 0 THEN -n ELSE n

\* LineString.length ** 2 of a two-vertex line, in quarter units.  A leg of
\* 2 quarters or more already reaches the threshold; the square is only
\* formed for shorter legs, which keeps the products small.
LengthSq(xs, ys, xe, ye) ==
    LET dx == Abs(xe - xs)
        dy == Abs(ye - ys)
    IN  IF dx >= 2 \/ dy >= 2 THEN MIN_LENGTH_SQ ELSE dx * dx + dy * dy

create_line_geometry(x_start, y_start, x_end, y_end) ==
    LET vs == validate_coordinates(x_start, y_start)
    IN  IF vs.raised THEN Raised(vs.msg)
        ELSE LET ve == validate_coordinates(x_end, y_end)
             IN  IF ve.raised THEN Raised(ve.msg)
                 ELSE IF ~vs.ok THEN Raised(<<"Startpunkt ungueltig">> \o vs.msg)
                 ELSE IF ~ve.ok THEN Raised(<<"Endpunkt ungueltig">> \o ve.msg)
                 ELSE IF LengthSq(x_start.v, y_start.v, x_end.v, y_end.v) < MIN_LENGTH_SQ
                      THEN Raised(<<"Leitung zu kurz">>)
                 ELSE [raised |-> FALSE, ok |-> TRUE,
                       msg |-> <<x_start.v, y_start.v, x_end.v, y_end.v>>]

\* ------------------------------------------------------------ conversions
\* int(row['Durchmesser_mm']): a number is truncated to whole millimetres,
\* NaN and a non-numeric str raise ValueError.
int_of(c) ==
    IF c.t = "num" THEN [raised |-> FALSE, val |-> c.v \div 10, msg |-> <<>>]
    ELSE IF c.t = "nan"
         THEN [raised |-> TRUE, val |-> 0, msg |-> <<"cannot convert float NaN to integer">>]
    ELSE [raised |-> TRUE, val |-> 0, msg |-> <<"invalid literal for int()">>]

\* A date cell is [t, v] with v = <<year, month, day>> as written in the cell.
DateStr(y, m, d) == [t |-> "str", v |-> <<y, m, d>>]
DateNaN == [t |-> "nan", v |-> <<0, 0, 0>>]
NaT == <<0, 0, 0>>

DaysInMonth(y, m) ==
    IF m \in {4, 6, 9, 11} THEN 30
    ELSE IF m = 2
         THEN (IF (y % 4 = 0 /\ y % 100 # 0) \/ y % 400 = 0 THEN 29 ELSE 28)
    ELSE 31

IsCalendarDate(v) ==
    /\ v[2] \in 1..12
    /\ v[3] >= 1
    /\ v[3] <= DaysInMonth(v[1], v[2])

\* pd.to_datetime(row['Verlegedatum']): a text cell is parsed and raises when
\* it names no calendar date; an empty cell (NaN) yields NaT without raising.
to_datetime(c) ==
    IF c.t = "nan" THEN [raised |-> FALSE, val |-> NaT, msg |-> <<>>]
    ELSE IF IsCalendarDate(c.v) THEN [raised |-> FALSE, val |-> c.v, msg |-> <<>>]
    ELSE [raised |-> TRUE, val |-> NaT, msg |-> <<"to_datetime: cannot parse date">>]

\* -------------------------------------------------------- process_records
\* the dict built in the except clause; idx is the zero-based index label
error_info_header_uncounted(idx, row, e) ==
    [zeile |-> idx + 1, leitung_id |-> row.Leitung_ID, fehler |-> e]

error_info(idx, row, e) ==
    [zeile |-> idx + ROW_OFFSET, leitung_id |-> row.Leitung_ID, fehler |-> e]

\* One pass of the loop body for the row at zero-based index idx: the rows it
\* appends to valid_records and to self.error_records.
row_outcome_short_dropped(idx, row) ==
    LET g == create_line_geometry(row.X_Start, row.Y_Start, row.X_End, row.Y_End)
        d == int_of(row.Durchmesser_mm)
        t == to_datetime(row.Verlegedatum)
        Fail(e) == [valid |-> <<>>, errors |-> <<error_info(idx, row, e)>>]
    IN  IF g.raised
        THEN (IF g.msg = <<"Leitung zu kurz">>
              THEN [valid |-> <<>>, errors |-> <<>>] ELSE Fail(g.msg))
        ELSE IF d.raised THEN Fail(d.msg)
        ELSE IF t.raised THEN Fail(t.msg)
        ELSE [valid |-> <<[leitung_id |-> row.Leitung_ID, durchmesser |-> d.val,
                           verlegedatum |-> t.val, geometry |-> g.msg]>>,
              errors |-> <<>>]

row_outcome(idx, row) ==
    LET g == create_line_geometry(row.X_Start, row.Y_Start, row.X_End, row.Y_End)
        d == int_of(row.Durchmesser_mm)
        t == to_datetime(row.Verlegedatum)
        Fail(e) == [valid |-> <<>>, errors |-> <<error_info(idx, row, e)>>]
    IN  IF g.raised THEN Fail(g.msg)
        ELSE IF d.raised THEN Fail(d.msg)
        ELSE IF t.raised THEN Fail(t.msg)
        ELSE [valid |-> <<[leitung_id |-> row.Leitung_ID, durchmesser |-> d.val,
                           verlegedatum |-> t.val, geometry |-> g.msg]>>,
              errors |-> <<>>]

\* the loop of process_records over rows i..len(frame) (i is 1-based here,
\* the index label of row i is i - 1), starting from the lists given
RECURSIVE process_loop(_, _, _, _)
process_loop(frame, i, valid, errors) ==
    IF i > Len(frame) THEN [valid_records |-> valid, error_records |-> errors]
    ELSE LET o == row_outcome(i - 1, frame[i])
         IN  process_loop(frame, i + 1, valid \o o.valid, errors \o o.errors)

\* process_records(df): valid_records starts empty on every call,
\* self.error_records is appended to as it stands
process_records(frame, accumulated) == process_loop(frame, 1, <<>>, accumulated)

\* ------------------------------------------------------------ input rows
RawRecord(id, xs, ys, xe, ye, dm, date) ==
    [Leitung_ID |-> id, X_Start |-> xs, Y_Start |-> ys, X_End |-> xe,
     Y_End |-> ye, Durchmesser_mm |-> dm, Verlegedatum |-> date]

\* rows of the shapes dummy_data_generator.py writes
GoodA == RawRecord("L_00001", Num(2683000 * 4), Num(1248000 * 4),
                   Num(2683100 * 4), Num(1248100 * 4), Num(1000), DateStr(2020, 1, 15))
GoodB == RawRecord("L_00002", Num(2683500 * 4), Num(1248500 * 4),
                   Num(2683600 * 4), Num(1248600 * 4), Num(1500), DateStr(1895, 6, 20))
ErrShort == RawRecord("L_00002", Num(2683500 * 4), Num(1248500 * 4),
                      Num(2683500 * 4 + 1), Num(1248500 * 4 + 1), Num(1500),
                      DateStr(1895, 6, 20))

SampleRows == {GoodA, GoodB, ErrShort}

RECURSIVE SeqsUpTo(_, _)
SeqsUpTo(S, n) ==
    IF n = 0 THEN {<<>>}
    ELSE LET shorter == SeqsUpTo(S, n - 1)
         IN  shorter \cup {Append(q, e) : q \in {p \in shorter : Len(p) = n - 1}, e \in S}

Frames == SeqsUpTo(SampleRows, MaxRows)

\* cells around the envelope's corners, an empty cell and a text cell
XCells == {Num(X_MIN - 1), Num(X_MIN), Num(X_MIN + 1), Num(X_MIN + 2),
           Num(X_MAX), Num(X_MAX + 1), NaN, Str}
YCells == {Num(Y_MIN - 1), Num(Y_MIN), Num(Y_MIN + 1), Num(Y_MIN + 2),
           Num(Y_MAX), Num(Y_MAX + 1), NaN, Str}
DiameterCells == {Num(1507), NaN, Str}
DateCells == {DateStr(2020, 1, 15), DateStr(2020, 13, 32), DateStr(2021, 2, 29), DateNaN}

RawRecords ==
    {RawRecord("L_00001", xs, ys, xe, ye, dm, date) :
        xs \in XCells, ys \in YCells, xe \in XCells, ye \in YCells,
        dm \in DiameterCells, date \in DateCells}

\* ------------------------------------------------------------------ table
Ids == {"L_00001", "L_00002"}
Absent == [present |-> FALSE, durchmesser |-> 0, verlegedatum |-> NaT,
           geometry |-> <<0, 0, 0, 0>>, import_run |-> 0]

\* INSERT ... ON CONFLICT (leitung_id) DO UPDATE: the row of that id is
\* replaced whole; import_datum is represented by the number of the run
Upsert(table, rec, run) ==
    [table EXCEPT ![rec.leitung_id] =
        [present |-> TRUE, durchmesser |-> rec.durchmesser,
         verlegedatum |-> rec.verlegedatum, geometry |-> rec.geometry,
         import_run |-> run]]

\* what the table holds once the transaction has ended
conn_rollback_keeps_writes(committed, transaction) == transaction

conn_rollback(committed, transaction) == committed

conn_commit(committed, transaction) == transaction

\* ------------------------------------------------------------------- Init
NoRun ==
    /\ df = <<>>
    /\ valid_records = <<>>
    /\ errBase = 0
    /\ cur = 0
    /\ success = "none"
    /\ report = <<>>
    /\ reportStatus = "none"
    /\ cause = "none"
    /\ result = "none"

NoCall ==
    /\ xy = <<NaN, NaN>>
    /\ verdict = NoVerdict

EmptyTable == [id \in Ids |-> Absent]

\* WerkleitungsImporter(db_config) against an empty table
Init ==
    /\ pc = "idle"
    /\ runs = 0
    /\ error_records = <<>>
    /\ conn = "None"
    /\ store = EmptyTable
    /\ pending = EmptyTable
    /\ storeBefore = EmptyTable
    /\ NoRun
    /\ NoCall

\* ------------------------------------------------------------- run_import
\* run_import(excel_path) is called on the importer (again, from the second
\* call on) and read_excel returns: None for an unreadable file or a missing
\* column, the DataFrame otherwise.
ReadExcel ==
    /\ pc \in {"idle", "done"}
    /\ runs < MaxRuns
    /\ runs' = runs + 1
    /\ valid_records' = <<>>
    /\ errBase' = Len(error_records)
    /\ cur' = 0
    /\ success' = "none"
    /\ report' = <<>>
    /\ reportStatus' = "none"
    /\ storeBefore' = store
    /\ \E outcome \in {"unreadable", "missing_column", "frame"} :
          IF outcome = "frame"
          THEN /\ \E frame \in Frames : df' = frame
               /\ pc' = "process"
               /\ cause' = "none"
               /\ result' = "none"
          ELSE /\ df' = <<>>
               /\ pc' = "done"
               /\ cause' = outcome
               /\ result' = "False"
    /\ UNCHANGED <<error_records, conn, pending, store, xy, verdict>>

\* gdf = self.process_records(df); if gdf.empty: return False
ProcessRecords ==
    /\ pc = "process"
    /\ LET r == process_records(df, error_records)
       IN  /\ valid_records' = r.valid_records
           /\ error_records' = r.error_records
           /\ IF r.valid_records = <<>>
              THEN /\ pc' = "done"
                   /\ cause' = "no_valid"
                   /\ result' = "False"
              ELSE /\ pc' = "connect"
                   /\ UNCHANGED <<cause, result>>
    /\ errBase' = Len(error_records)
    /\ UNCHANGED <<runs, df, conn, cur, pending, store, storeBefore, success,
                   report, reportStatus, xy, verdict>>

\* if not self.connect_db(): return False; then write_to_database is entered:
\* self.conn is set, so its "conn is None" exit is not taken, and the cursor's
\* first statement opens a transaction on the committed table
ConnectDb ==
    /\ pc = "connect"
    /\ \E connected \in BOOLEAN :
          IF connected
          THEN /\ conn' = "open"
               /\ pc' = "write"
               /\ cur' = 1
               /\ pending' = store
               /\ storeBefore' = store
               /\ UNCHANGED <<cause, result>>
          ELSE /\ pc' = "done"
               /\ cause' = "connect_failed"
               /\ result' = "False"
               /\ UNCHANGED <<conn, cur, pending, storeBefore>>
    /\ UNCHANGED <<runs, df, valid_records, error_records, errBase, store,
                   success, report, reportStatus, xy, verdict>>

\* ------------------------------------------------------ write_to_database
\* one cursor.execute(insert_sql, ...) of the loop; an exception goes to the
\* except clause: rollback, return False
WriteExecute ==
    /\ pc = "write"
    /\ cur <= Len(valid_records)
    /\ \E executed \in BOOLEAN :
          IF executed
          THEN /\ pending' = Upsert(pending, valid_records[cur], runs)
               /\ cur' = cur + 1
               /\ UNCHANGED <<pc, store, success, cause>>
          ELSE /\ store' = conn_rollback(store, pending)
               /\ pending' = store'
               /\ success' = "False"
               /\ cause' = "write_failed"
               /\ pc' = "report"
               /\ UNCHANGED cur
    /\ UNCHANGED <<runs, df, valid_records, error_records, errBase, conn,
                   storeBefore, report, reportStatus, result, xy, verdict>>

\* self.conn.commit() after the loop; return True, or rollback and return
\* False when the commit raises
WriteCommit ==
    /\ pc = "write"
    /\ cur > Len(valid_records)
    /\ \E committed \in BOOLEAN :
          IF committed
          THEN /\ store' = conn_commit(store, pending)
               /\ success' = "True"
               /\ cause' = "write_ok"
          ELSE /\ store' = conn_rollback(store, pending)
               /\ success' = "False"
               /\ cause' = "write_failed"
    /\ pending' = store'
    /\ pc' = "report"
    /\ UNCHANGED <<runs, df, valid_records, error_records, errBase, conn, cur,
                   storeBefore, report, reportStatus, result, xy, verdict>>

\* ------------------------------------------------------ save_error_report
\* self.save_error_report(error_file); ...; return success.  to_csv is not
\* guarded: when it raises, the exception leaves run_import.
SaveErrorReport ==
    /\ pc = "report"
    /\ IF error_records = <<>>
       THEN /\ reportStatus' = "skipped"
            /\ report' = <<>>
            /\ result' = success
       ELSE \E written \in BOOLEAN :
               IF written
               THEN /\ reportStatus' = "written"
                    /\ report' = error_records
                    /\ result' = success
               ELSE /\ reportStatus' = "failed"
                    /\ report' = <<>>
                    /\ result' = "raised"
    /\ pc' = "done"
    /\ UNCHANGED <<runs, df, valid_records, error_records, errBase, conn, cur,
                   pending, store, storeBefore, success, cause, xy, verdict>>

Next ==
    \/ ReadExcel
    \/ ProcessRecords
    \/ ConnectDb
    \/ WriteExecute
    \/ WriteCommit
    \/ SaveErrorReport

Spec == Init /\ [][Next]_vars

\* ------------------------------------- process_records on a single row
InitRow ==
    /\ pc = "row"
    /\ runs = 0
    /\ error_records = <<>>
    /\ conn = "None"
    /\ store = EmptyTable
    /\ pending = EmptyTable
    /\ storeBefore = EmptyTable
    /\ valid_records = <<>>
    /\ errBase = 0
    /\ cur = 0
    /\ success = "none"
    /\ report = <<>>
    /\ reportStatus = "none"
    /\ cause = "none"
    /\ result = "none"
    /\ \E row \in RawRecords : df = <<row>>
    /\ NoCall

\* importer.process_records(df) on a fresh importer
CallProcessRecords ==
    /\ pc = "row"
    /\ LET r == process_records(df, error_records)
       IN  /\ valid_records' = r.valid_records
           /\ error_records' = r.error_records
    /\ errBase' = Len(error_records)
    /\ pc' = "row_done"
    /\ UNCHANGED <<runs, df, conn, cur, pending, store, storeBefore, success,
                   report, reportStatus, cause, result, xy, verdict>>

NextRow == CallProcessRecords

SpecRow == InitRow /\ [][NextRow]_vars

\* --------------------------------------- validate_coordinates on a pair
InitCoord ==
    /\ pc = "coord"
    /\ runs = 0
    /\ error_records = <<>>
    /\ conn = "None"
    /\ store = EmptyTable
    /\ pending = EmptyTable
    /\ storeBefore = EmptyTable
    /\ NoRun
    /\ \E x \in XCells \cup {Num(1000000 * 4)}, y \in YCells \cup {Num(1248000 * 4)} :
          xy = <<x, y>>
    /\ verdict = NoVerdict

\* importer.validate_coordinates(x, y); a TypeError is recorded as raised
CallValidateCoordinates ==
    /\ pc = "coord"
    /\ verdict' = validate_coordinates(xy[1], xy[2])
    /\ pc' = "coord_done"
    /\ UNCHANGED <<runs, df, valid_records, error_records, errBase, conn, cur,
                   pending, store, storeBefore, success, report, reportStatus,
                   cause, result, xy>>

NextCoord == CallValidateCoordinates

SpecCoord == InitCoord /\ [][NextCoord]_vars

\* =================================================================== claims
\* process_records has returned in the current run
Processed ==
    \/ pc \in {"connect", "write", "report"}
    \/ pc = "done" /\ cause \notin {"unreadable", "missing_column"}

\* the row is not in the output batch
Rejected(row) == row_outcome(0, row).valid = <<>>

RejectedRows == {i \in DOMAIN df : Rejected(df[i])}

\* the entries process_records appended in the current run
Appended == SubSeq(error_records, errBase + 1, Len(error_records))

\* C1: after process_records has run once on a fresh importer, the valid
\* records and the error entries together number the raw records, and every
\* raw record has at most one error entry, so each row has exactly one
\* outcome of exactly one kind.
C1_PartitionLaw ==
    (runs = 1 /\ Processed) =>
        /\ Len(valid_records) + Len(error_records) = Len(df)
        /\ \A i \in DOMAIN df :
              Cardinality({k \in DOMAIN error_records :
                              error_records[k].zeile = (i - 1) + 2}) <= 1
        /\ \A k \in DOMAIN error_records :
              (error_records[k].zeile - 2) + 1 \in DOMAIN df

C1_Witness ==
    /\ runs = 1
    /\ Processed
    /\ Len(df) = MaxRows
    /\ Len(valid_records) >= 1
    /\ Len(error_records) >= 1

\* the point lies inside the plausibility envelope
InEnvelope(x, y) ==
    /\ x.t = "num" /\ 2480000 * 4 <= x.v /\ x.v <= 2840000 * 4
    /\ y.t = "num" /\ 1070000 * 4 <= y.v /\ y.v <= 1300000 * 4

\* on the quarter-unit grid a distance of 0.5 needs a leg of two quarters:
\* two legs of one quarter each make 0.354
LongEnough(row) ==
    \/ Abs(row.X_End.v - row.X_Start.v) >= 2
    \/ Abs(row.Y_End.v - row.Y_Start.v) >= 2

DateParseable(c) == c.t = "str" /\ IsCalendarDate(c.v)

AllChecksPass(row) ==
    /\ InEnvelope(row.X_Start, row.Y_Start)
    /\ InEnvelope(row.X_End, row.Y_End)
    /\ LongEnough(row)
    /\ row.Durchmesser_mm.t = "num"
    /\ DateParseable(row.Verlegedatum)

\* C2: a raw record is placed in the output batch if and only if both points
\* lie inside the envelope, they are at least 0.5 units apart, the diameter
\* coerces to an integer and the installation date is a parseable calendar
\* date.
C2_AcceptedIffAllChecks ==
    pc = "row_done" => (Len(valid_records) = 1 <=> AllChecksPass(df[1]))

RECURSIVE ApplyAll(_, _, _, _)
ApplyAll(table, records, i, run) ==
    IF i > Len(records) THEN table
    ELSE ApplyAll(Upsert(table, records[i], run), records, i + 1, run)

\* C3: the batch write is all-or-nothing: while write_to_database runs nothing
\* of the batch is committed, after it returned True every segment of the
\* batch is committed, after it returned False the table holds exactly what
\* it held before the call.
C3_AllOrNothing ==
    /\ pc = "write" => store = storeBefore
    /\ (pc \in {"report", "done"} /\ success = "True") =>
          store = ApplyAll(storeBefore, valid_records, 1, runs)
    /\ (pc \in {"report", "done"} /\ success = "False") => store = storeBefore

\* the write failed after at least one statement of the batch was executed
C3_Witness ==
    /\ pc = "report"
    /\ success = "False"
    /\ cur >= 2
    /\ Len(valid_records) >= 2

\* C4: run_import yields the success indicator exactly when the batch write
\* succeeded or there were no valid rows to write, and the failure indicator
\* exactly when the input is unreadable, a column is missing, the connection
\* cannot be established or the batch write fails.
C4_RunOutcome ==
    pc = "done" =>
        /\ result = "True" <=> cause \in {"write_ok", "no_valid"}
        /\ result = "False" <=>
              cause \in {"unreadable", "missing_column", "connect_failed", "write_failed"}

\* C5: at the end of every run in which rows were validated, the error report
\* holding the full set of errors is produced if and only if the error
\* accumulator is non-empty.
C5_ReportIffErrors ==
    (pc = "done" /\ cause \notin {"unreadable", "missing_column"}) =>
        /\ reportStatus = "written" <=> error_records # <<>>
        /\ reportStatus = "written" => report = error_records

\* C6: at the end of any run the accumulator holds exactly the errors of the
\* rows rejected in that run and no entry from an earlier run.
C6_AccumulatorPerRun ==
    (pc = "done" /\ cause \notin {"unreadable", "missing_column"}) =>
        /\ Len(error_records) = Cardinality(RejectedRows)
        /\ \A k \in DOMAIN error_records :
              /\ (error_records[k].zeile - 2) + 1 \in RejectedRows
              /\ error_records[k].leitung_id =
                    df[(error_records[k].zeile - 2) + 1].Leitung_ID

\* C7: when the batch write succeeded and writing the error report then
\* fails, the run still ends with the success indicator and the committed
\* segments stay committed.
C7_ReportBestEffort ==
    (pc = "done" /\ success = "True" /\ reportStatus = "failed") =>
        /\ result = "True"
        /\ store = ApplyAll(storeBefore, valid_records, 1, runs)

C9_RowNumbers ==
    Processed =>
        /\ Len(Appended) = Cardinality(RejectedRows)
        /\ \A k \in DOMAIN Appended :
              \E i \in RejectedRows :
                 /\ Cardinality({j \in RejectedRows : j <= i}) = k
                 /\ Appended[k].zeile = (i - 1) + 2

\* a later run appends two entries behind those of an earlier run
C9_Witness ==
    /\ Processed
    /\ errBase >= 1
    /\ Len(Appended) >= 2

AxisReason(x) ==
    IF x.t = "num" /\ 2480000 * 4 <= x.v /\ x.v <= 2840000 * 4
    THEN <<"Y-Koordinate ausserhalb Schweizer Bereich">>
    ELSE <<"X-Koordinate ausserhalb Schweizer Bereich">>

\* the reason of the first failing check, in the order start point, end
\* point, length, diameter, date
FirstFailure(row) ==
    IF ~InEnvelope(row.X_Start, row.Y_Start)
    THEN <<"Startpunkt ungueltig">> \o AxisReason(row.X_Start)
    ELSE IF ~InEnvelope(row.X_End, row.Y_End)
    THEN <<"Endpunkt ungueltig">> \o AxisReason(row.X_End)
    ELSE IF ~LongEnough(row) THEN <<"Leitung zu kurz">>
    ELSE IF row.Durchmesser_mm.t = "nan" THEN <<"cannot convert float NaN to integer">>
    ELSE IF row.Durchmesser_mm.t = "str" THEN <<"invalid literal for int()">>
    ELSE <<"to_datetime: cannot parse date">>

\* C10: a rejected record is reported with the reason of the first failing
\* check in the order start-point plausibility, end-point plausibility,
\* minimum length, diameter coercion, date parsing; a missing or non-numeric
\* coordinate counts as an out-of-range failure of its point.
C10_FirstFailingCheck ==
    (pc = "row_done" /\ Len(error_records) = 1) =>
        error_records[1].fehler = FirstFailure(df[1])

====
